---- MODULE Spec2Model ----
(***************************************************************************)
(* A model of the pngss PNG decoder (src/src/lib.rs, src/src/image_data.rs)*)
(*                                                                         *)
(* The input file is a sequence of bytes.  PngDecoder::new parses the      *)
(* signature and the IHDR chunk; decode walks the chunk stream (pre-scan   *)
(* and merge pass), inflates the IDAT data, reverses the scanline filters  *)
(* row by row, unpacks sub-byte samples and checks the palette;            *)
(* ImageData::to_rgba_bytes converts the result.                           *)
(***************************************************************************)
EXTENDS Integers, Sequences, FiniteSets, TLC

VARIABLES
    input,          \* the bytes handed to PngDecoder::new
    ptr32,          \* cfg!(target_pointer_width = "32") of the build
    pc,             \* position of the program
    call,           \* the public operation in progress or last finished
    err,            \* the DecodeError returned (or "panic"), "none" otherwise
    slice,          \* PngDecoder.slice
    info,           \* PngDecoder.info
    skip_plte,      \* argument of get_idat_chunks
    iter,           \* Chunks.iter, as the bytes not yet consumed
    chunk,          \* the chunk most recently returned by peek_chunk/next_chunk
    palette,        \* decode: Option<Vec<RGB888>>
    data,           \* get_idat_chunks: Option<Cow<[u8]>>
    inflated,       \* decode: output of Deflate::inflate
    source,         \* decode: the unread rest of inflated
    reconstructed,  \* decode: the reconstructed buffer
    prev_line,      \* decode: the previous row buffer
    line,           \* decode: the current row buffer
    y,              \* decode: number of completed row iterations
    filter_type,    \* decode: filter type of the row last processed
    image,          \* the ImageData returned by decode
    rgba,           \* the bytes returned by ImageData::to_rgba_bytes
    paeth_args,     \* paeth called on its own: <<left, above, upper_left>>
    paeth_ret       \* paeth called on its own: the value returned

vars == <<input, ptr32, pc, call, err, slice, info, skip_plte, iter, chunk,
          palette, data, inflated, source, reconstructed, prev_line, line,
          y, filter_type, image, rgba, paeth_args, paeth_ret>>

(***************************************************************************)
(* Option values                                                           *)
(***************************************************************************)
None == [some |-> FALSE]
Some(v) == [some |-> TRUE, v |-> v]

(***************************************************************************)
(* Bytes, big-endian words and chunk tags                                  *)
(***************************************************************************)
PNG_SIGNATURE_mut == <<137, 80, 78, 71, 13, 10, 26, 11>>

PNG_SIGNATURE == <<137, 80, 78, 71, 13, 10, 26, 10>>

IHDR == <<73, 72, 68, 82>>
PLTE == <<80, 76, 84, 69>>
IDAT == <<73, 68, 65, 84>>
IEND == <<73, 69, 78, 68>>

\* u32::from_be_bytes
as_u32(b) == b[1] * 16777216 + b[2] * 65536 + b[3] * 256 + b[4]

\* u32::to_be_bytes
from_u32(v) ==
    <<(v \div 16777216) % 256, (v \div 65536) % 256, (v \div 256) % 256, v % 256>>

\* u8::is_ascii_alphabetic
is_ascii_alphabetic(b) == (b >= 65 /\ b <= 90) \/ (b >= 97 /\ b <= 122)

\* b & 0x20 != 0
Bit5(b) == (b \div 32) % 2 = 1

is_ancillary(t) == Bit5(t[1])

\* is_critical with the ancillary test inverted
is_critical_mut(t) == is_ancillary(t)

is_critical(t) == ~is_ancillary(t)

is_reserved(t) == Bit5(t[3])

\* is_valid without the test of the reserved bit
is_valid_mut(t) ==
    /\ is_ascii_alphabetic(t[1])
    /\ is_ascii_alphabetic(t[2])
    /\ is_ascii_alphabetic(t[3])
    /\ is_ascii_alphabetic(t[4])

is_valid(t) ==
    /\ is_ascii_alphabetic(t[1])
    /\ is_ascii_alphabetic(t[2])
    /\ is_ascii_alphabetic(t[3])
    /\ is_ascii_alphabetic(t[4])
    /\ ~is_reserved(t)

\* the bytes of s after the first n
Drop(s, n) == SubSeq(s, n + 1, Len(s))

\* the first n bytes of s
Take(s, n) == SubSeq(s, 1, n)

(***************************************************************************)
(* Chunks::peek_chunk on the unread bytes s                                *)
(***************************************************************************)
NoChunk == [ok |-> FALSE]

\* peek_chunk refusing a chunk whose checksum bytes are not those expected
peek_chunk_mut(s) ==
    IF Len(s) < 12 THEN NoChunk
    ELSE LET length == as_u32(SubSeq(s, 1, 4))
             chunk_type == SubSeq(s, 5, 8)
         IN  IF ~is_valid(chunk_type) THEN NoChunk
             ELSE IF length > Len(s) - 8 THEN NoChunk
             ELSE IF Len(s) < length + 12 THEN NoChunk
             ELSE IF as_u32(SubSeq(s, 9 + length, 12 + length)) # 0 THEN NoChunk
             ELSE [ok |-> TRUE,
                   len |-> length,
                   chunk_type |-> chunk_type,
                   data |-> SubSeq(s, 9, 8 + length),
                   crc |-> as_u32(SubSeq(s, 9 + length, 12 + length))]

peek_chunk(s) ==
    IF Len(s) < 12 THEN NoChunk
    ELSE LET length == as_u32(SubSeq(s, 1, 4))
             chunk_type == SubSeq(s, 5, 8)
         IN  IF ~is_valid(chunk_type) THEN NoChunk
             ELSE IF length > Len(s) - 8 THEN NoChunk
             ELSE IF Len(s) < length + 12 THEN NoChunk
             ELSE [ok |-> TRUE,
                   len |-> length,
                   chunk_type |-> chunk_type,
                   data |-> SubSeq(s, 9, 8 + length),
                   crc |-> as_u32(SubSeq(s, 9 + length, 12 + length))]

\* Advance stepping over c.len + 11 bytes
Advance_mut(s, c) == Drop(s, c.len + 11)

\* the bytes left after next_chunk returned c: iter.nth(c.len + 11)
Advance(s, c) == Drop(s, c.len + 12)

(***************************************************************************)
(* ImageInfo, ImageType, BitDepth                                          *)
(***************************************************************************)
NoInfo == [width |-> 0, height |-> 0, bit_depth |-> 0, image_type |-> "none"]

n_channels(t) ==
    CASE t = "Grayscale" -> 1
      [] t = "GrayscaleAlpha" -> 2
      [] t = "RGB" -> 3
      [] t = "RGBA" -> 4
      [] t = "Indexed" -> 1

\* BitDepth::new
BitDepthNew(val) == IF val \in {1, 2, 4, 8} THEN Some(val) ELSE None

\* ImageTypeOf without the bit depth test on truecolor images
ImageTypeOf_mut(color_type, bit_depth) ==
    CASE color_type = 0 /\ bit_depth = 8 -> Some("Grayscale")
      [] color_type = 2 -> Some("RGB")
      [] color_type = 3 /\ bit_depth \in {1, 2, 4, 8} -> Some("Indexed")
      [] color_type = 4 /\ bit_depth = 8 -> Some("GrayscaleAlpha")
      [] color_type = 6 /\ bit_depth = 8 -> Some("RGBA")
      [] OTHER -> None

\* the match on (color_type, bit_depth) in PngDecoder::new
ImageTypeOf(color_type, bit_depth) ==
    CASE color_type = 0 /\ bit_depth = 8 -> Some("Grayscale")
      [] color_type = 2 /\ bit_depth = 8 -> Some("RGB")
      [] color_type = 3 /\ bit_depth \in {1, 2, 4, 8} -> Some("Indexed")
      [] color_type = 4 /\ bit_depth = 8 -> Some("GrayscaleAlpha")
      [] color_type = 6 /\ bit_depth = 8 -> Some("RGBA")
      [] OTHER -> None

\* the resolution above which a 32-bit build rejects the image
MaxResolution32 == 268435456

\* width.saturating_mul(height) > 0x1000_0000, for height > 0: the saturated
\* product 0xFFFF_FFFF is above the limit, so the test is on the exact product
ResolutionTooLarge(width, height) == width > MaxResolution32 \div height

(***************************************************************************)
(* PngDecoder::new                                                         *)
(***************************************************************************)
NewErr(e) == [err |-> e, slice |-> <<>>, info |-> NoInfo]

new_mut(bytes, p32) ==
    IF Len(bytes) < 8 THEN NewErr("InvalidData")
    ELSE IF Take(bytes, 8) # PNG_SIGNATURE THEN NewErr("InvalidData")
    ELSE IF Len(bytes) - 8 < 25 THEN NewErr("InvalidData")
    ELSE
      LET ihdr == peek_chunk(SubSeq(bytes, 9, 33))
          next == Drop(bytes, 33)
      IN
      IF ~ihdr.ok THEN NewErr("InvalidData")
      ELSE IF ihdr.chunk_type # IHDR THEN NewErr("InvalidData")
      ELSE IF ihdr.len # 13 THEN NewErr("InvalidData")
      ELSE
        LET width == as_u32(SubSeq(ihdr.data, 1, 4))
            height == as_u32(SubSeq(ihdr.data, 5, 8))
            bit_depth == BitDepthNew(ihdr.data[9])
            color_type == ihdr.data[10]
            compression_method == ihdr.data[11]
            filter_method == ihdr.data[12]
            interlace_method == ihdr.data[13]
        IN
        IF p32 /\ height # 0 /\ ResolutionTooLarge(width, height)
             THEN NewErr("UnsupportedFormat")
        ELSE IF ~bit_depth.some THEN NewErr("UnsupportedFormat")
        ELSE IF width = 0 \/ height = 0 THEN NewErr("InvalidData")
        ELSE
          LET image_type == ImageTypeOf(color_type, bit_depth.v)
          IN
          IF ~image_type.some THEN NewErr("UnsupportedFormat")
          ELSE IF compression_method # 0 \/ filter_method # 0 \/ interlace_method # 0
               THEN NewErr("UnsupportedFormat")
          ELSE [err |-> "none",
                slice |-> next,
                info |-> [width |-> width, height |-> height,
                          bit_depth |-> bit_depth.v, image_type |-> image_type.v]]

new(bytes, p32) ==
    IF Len(bytes) < 8 THEN NewErr("InvalidData")
    ELSE IF Take(bytes, 8) # PNG_SIGNATURE THEN NewErr("InvalidData")
    ELSE IF Len(bytes) - 8 < 25 THEN NewErr("InvalidData")
    ELSE
      LET ihdr == peek_chunk(SubSeq(bytes, 9, 33))
          next == Drop(bytes, 33)
      IN
      IF ~ihdr.ok THEN NewErr("InvalidData")
      ELSE IF ihdr.chunk_type # IHDR THEN NewErr("InvalidData")
      ELSE IF ihdr.len # 13 THEN NewErr("InvalidData")
      ELSE
        LET width == as_u32(SubSeq(ihdr.data, 1, 4))
            height == as_u32(SubSeq(ihdr.data, 5, 8))
            bit_depth == BitDepthNew(ihdr.data[9])
            color_type == ihdr.data[10]
            compression_method == ihdr.data[11]
            filter_method == ihdr.data[12]
            interlace_method == ihdr.data[13]
        IN
        IF width = 0 \/ height = 0 THEN NewErr("InvalidData")
        ELSE IF p32 /\ ResolutionTooLarge(width, height)
             THEN NewErr("UnsupportedFormat")
        ELSE IF ~bit_depth.some THEN NewErr("UnsupportedFormat")
        ELSE
          LET image_type == ImageTypeOf(color_type, bit_depth.v)
          IN
          IF ~image_type.some THEN NewErr("UnsupportedFormat")
          ELSE IF compression_method # 0 \/ filter_method # 0 \/ interlace_method # 0
               THEN NewErr("UnsupportedFormat")
          ELSE [err |-> "none",
                slice |-> next,
                info |-> [width |-> width, height |-> height,
                          bit_depth |-> bit_depth.v, image_type |-> image_type.v]]

(***************************************************************************)
(* Scanline filters (decode, the match on filter_type)                     *)
(***************************************************************************)
\* FilterType::new taking every selector above 4 for None
FilterTypeNew_mut(value) ==
    CASE value = 1 -> Some("Sub")
      [] value = 2 -> Some("Up")
      [] value = 3 -> Some("Average")
      [] value = 4 -> Some("Paeth")
      [] OTHER -> Some("None")

\* FilterType::new
FilterTypeNew(value) ==
    CASE value = 0 -> Some("None")
      [] value = 1 -> Some("Sub")
      [] value = 2 -> Some("Up")
      [] value = 3 -> Some("Average")
      [] value = 4 -> Some("Paeth")
      [] OTHER -> None

\* u8::wrapping_add
wrapping_add(a, b) == (a + b) % 256

average(lhs, rhs) == ((lhs + rhs) \div 2) % 256

abs_diff(a, b) == IF a >= b THEN a - b ELSE b - a

\* paeth with strict comparisons in its first test
paeth_mut(left, above, upper_left) ==
    LET a == left
        b == above
        c == upper_left
        p == a + b - c
        pa == abs_diff(p, a)
        pb == abs_diff(p, b)
        pcc == abs_diff(p, c)
    IN  IF pa < pb /\ pa < pcc THEN a
        ELSE IF pb <= pcc THEN b
        ELSE c

paeth(left, above, upper_left) ==
    LET a == left
        b == above
        c == upper_left
        p == a + b - c
        pa == abs_diff(p, a)
        pb == abs_diff(p, b)
        pcc == abs_diff(p, c)
    IN  IF pa <= pb /\ pa <= pcc THEN a
        ELSE IF pb <= pcc THEN b
        ELSE c

Min(a, b) == IF a <= b THEN a ELSE b

Zeros(n) == [c \in 1..n |-> 0]

\* the k-th n-byte tuple of s (chunks_exact(n)), k counted from 1
Tuple(s, n, k) == SubSeq(s, (k - 1) * n + 1, k * n)

\* SubRow with a single accumulator whatever the number of channels
SubRow_mut(line_src, n) ==
    LET F[k \in 0..Len(line_src)] ==
            IF k = 0 THEN [out |-> <<>>, prev |-> 0]
            ELSE LET st == F[k - 1]
                     px == wrapping_add(line_src[k], st.prev)
                 IN  [out |-> Append(st.out, px), prev |-> px]
    IN  F[Len(line_src)].out

\* FilterType::Sub with n channels: one accumulator per channel
SubRow(line_src, n) ==
    LET m == Len(line_src) \div n
        F[k \in 0..m] ==
            IF k = 0 THEN [out |-> <<>>, prev |-> Zeros(n)]
            ELSE LET st == F[k - 1]
                     x == Tuple(line_src, n, k)
                     px == [c \in 1..n |-> wrapping_add(x[c], st.prev[c])]
                 IN  [out |-> st.out \o px, prev |-> px]
    IN  F[m].out

\* FilterType::Up
UpRow(line_src, prev) ==
    IF prev = <<>> THEN line_src
    ELSE [i \in 1..Min(Len(line_src), Len(prev)) |-> wrapping_add(line_src[i], prev[i])]

\* FilterType::Average with n channels: zip of the tuples of both rows
AverageRow(line_src, prev, n) ==
    LET m == Min(Len(line_src) \div n, Len(prev) \div n)
        F[k \in 0..m] ==
            IF k = 0 THEN [out |-> <<>>, prev |-> Zeros(n)]
            ELSE LET st == F[k - 1]
                     x == Tuple(line_src, n, k)
                     above == Tuple(prev, n, k)
                     px == [c \in 1..n |->
                              wrapping_add(x[c], average(above[c], st.prev[c]))]
                 IN  [out |-> st.out \o px, prev |-> px]
    IN  F[m].out

\* FilterType::Paeth with n channels: zip of the tuples of both rows
PaethRow(line_src, prev, n) ==
    LET m == Min(Len(line_src) \div n, Len(prev) \div n)
        F[k \in 0..m] ==
            IF k = 0 THEN [out |-> <<>>, left |-> Zeros(n), upper_left |-> Zeros(n)]
            ELSE LET st == F[k - 1]
                     x == Tuple(line_src, n, k)
                     above == Tuple(prev, n, k)
                     px == [c \in 1..n |->
                              wrapping_add(x[c],
                                  paeth(st.left[c], above[c], st.upper_left[c]))]
                 IN  [out |-> st.out \o px, left |-> px, upper_left |-> above]
    IN  F[m].out

\* the row buffer `line` after the match on filter_type
ReconstructRow(ft, line_src, prev, n) ==
    CASE ft = "None" -> line_src
      [] ft = "Sub" -> SubRow(line_src, n)
      [] ft = "Up" -> UpRow(line_src, prev)
      [] ft = "Average" -> AverageRow(line_src, prev, n)
      [] ft = "Paeth" -> PaethRow(line_src, prev, n)

\* the row length in packed bytes
Stride(i) ==
    IF i.bit_depth > 8 THEN i.width * n_channels(i.image_type)
    ELSE (i.width * n_channels(i.image_type) * i.bit_depth + 7) \div 8

\* the maximum size handed to Deflate::inflate
InflateLimit(i) == (1 + i.width * n_channels(i.image_type)) * i.height

(***************************************************************************)
(* Bit depth fix (decode, "fix bit depth less than 8")                     *)
(***************************************************************************)
Pow2(n) == IF n = 0 THEN 1 ELSE IF n = 1 THEN 2 ELSE IF n = 2 THEN 4
           ELSE IF n = 3 THEN 8 ELSE IF n = 4 THEN 16 ELSE IF n = 5 THEN 32
           ELSE IF n = 6 THEN 64 ELSE IF n = 7 THEN 128 ELSE 256

\* (byte >> shift) & (2^d - 1)
Bits(byte, shift, d) == (byte \div Pow2(shift)) % Pow2(d)

\* the samples pushed for one full byte: for i in (0..8/d).rev()
FullByte(byte, d) ==
    [j \in 1..(8 \div d) |-> Bits(byte, ((8 \div d) - j) * d, d)]

\* the samples pushed for the last byte of a row: for i in (0..wr).rev()
PartialByte(byte, wr, d) ==
    [j \in 1..wr |-> Bits(byte, (wr - j) * d, d)]

RECURSIVE FullBytes(_, _)
FullBytes(bytes, d) ==
    IF bytes = <<>> THEN <<>>
    ELSE FullByte(Head(bytes), d) \o FullBytes(Tail(bytes), d)

\* the loop over the rows: rest is what the iterator has not yielded yet
RECURSIVE FixRows(_, _, _, _, _, _)
FixRows(rest, rows, wq, wr, d, fixed) ==
    IF rows = 0 THEN [panic |-> FALSE, fixed |-> fixed]
    ELSE LET taken == Take(rest, Min(wq, Len(rest)))
             after == Drop(rest, Len(taken))
             full == fixed \o FullBytes(taken, d)
         IN  IF wr > 0
             THEN IF after = <<>> THEN [panic |-> TRUE, fixed |-> full]
                  ELSE FixRows(Tail(after), rows - 1, wq, wr, d,
                               full \o PartialByte(Head(after), wr, d))
             ELSE FixRows(after, rows - 1, wq, wr, d, full)

FixBitDepthOf(packed, i) ==
    FixRows(packed, i.height, i.width \div (8 \div i.bit_depth),
            i.width % (8 \div i.bit_depth), i.bit_depth, <<>>)

(***************************************************************************)
(* ImageType::iter and ImageType::to_rgba_bytes                            *)
(***************************************************************************)
from_gray(gray) == <<gray, gray, gray, 255>>

from_gray_alpha(w, a) == <<w, w, w, a>>

from_rgb(r, g, b) == <<r, g, b, 255>>

from_rgba(r, g, b, a) == <<r, g, b, a>>

into_rgba(rgb) == <<rgb[1], rgb[2], rgb[3], 255>>

RECURSIVE Flatten(_)
Flatten(ss) == IF ss = <<>> THEN <<>> ELSE Head(ss) \o Flatten(Tail(ss))

\* the colors yielded by ImageType::iter; a palette index out of range panics
PixelIter(t, bytes, pal) ==
    CASE t = "Grayscale" ->
           [panic |-> FALSE, px |-> [k \in 1..Len(bytes) |-> from_gray(bytes[k])]]
      [] t = "GrayscaleAlpha" ->
           [panic |-> FALSE,
            px |-> [k \in 1..(Len(bytes) \div 2) |->
                      from_gray_alpha(bytes[2 * k - 1], bytes[2 * k])]]
      [] t = "RGB" ->
           [panic |-> FALSE,
            px |-> [k \in 1..(Len(bytes) \div 3) |->
                      from_rgb(bytes[3 * k - 2], bytes[3 * k - 1], bytes[3 * k])]]
      [] t = "RGBA" ->
           [panic |-> FALSE,
            px |-> [k \in 1..(Len(bytes) \div 4) |->
                      from_rgba(bytes[4 * k - 3], bytes[4 * k - 2],
                                bytes[4 * k - 1], bytes[4 * k])]]
      [] t = "Indexed" ->
           IF \E k \in 1..Len(bytes) : bytes[k] >= Len(pal)
           THEN [panic |-> TRUE, px |-> <<>>]
           ELSE [panic |-> FALSE,
                 px |-> [k \in 1..Len(bytes) |-> into_rgba(pal[bytes[k] + 1])]]

to_rgba_bytes(t, bytes, pal) ==
    IF t = "RGBA" THEN [panic |-> FALSE, bytes |-> bytes]
    ELSE LET it == PixelIter(t, bytes, pal)
         IN  [panic |-> it.panic, bytes |-> Flatten(it.px)]

(***************************************************************************)
(* The operations                                                          *)
(***************************************************************************)
Fail(c, e) ==
    /\ pc' = "failed"
    /\ call' = c
    /\ err' = e

\* PngDecoder::new(input)
New ==
    /\ pc = "new"
    /\ LET r == new(input, ptr32)
       IN  IF r.err # "none"
           THEN /\ Fail("new", r.err)
                /\ UNCHANGED <<slice, info>>
           ELSE /\ pc' = "ready"
                /\ call' = "new"
                /\ slice' = r.slice
                /\ info' = r.info
                /\ UNCHANGED err
    /\ UNCHANGED <<paeth_args, paeth_ret, input, ptr32, skip_plte, iter, chunk, palette, data, inflated,
                   source, reconstructed, prev_line, line, y, filter_type,
                   image, rgba>>

\* decode: let mut chunks = self.chunks(); let mut palette = None
DecodeBegin ==
    /\ pc = "ready"
    /\ pc' = "prescan"
    /\ call' = "decode"
    /\ iter' = slice
    /\ palette' = None
    /\ UNCHANGED <<paeth_args, paeth_ret, input, ptr32, err, slice, info, skip_plte, chunk, data,
                   inflated, source, reconstructed, prev_line, line, y,
                   filter_type, image, rgba>>

\* self.chunks().get_idat_chunks(skip): let mut data = None
GetIdatChunksBegin ==
    /\ pc = "ready"
    /\ \E skip \in BOOLEAN :
         /\ skip_plte' = skip
         /\ pc' = IF skip THEN "merge" ELSE "idat_prescan"
    /\ call' = "get_idat_chunks"
    /\ iter' = slice
    /\ data' = None
    /\ UNCHANGED <<paeth_args, paeth_ret, input, ptr32, err, slice, info, chunk, palette, inflated,
                   source, reconstructed, prev_line, line, y, filter_type,
                   image, rgba>>

\* the palette built from a PLTE payload: chunks_exact(3) mapped to RGB888
PaletteOf(bytes) ==
    [k \in 1..(Len(bytes) \div 3) |-> <<bytes[3 * k - 2], bytes[3 * k - 1], bytes[3 * k]>>]

\* decode: one iteration of the loop "Read chunks before IDAT"; leaving the
\* loop enters get_idat_chunks(true)
PreScan ==
    /\ pc = "prescan"
    /\ LET c == peek_chunk(iter)
       IN  /\ chunk' = c
           /\ IF ~c.ok
              THEN /\ Fail(call, "InvalidData")
                   /\ UNCHANGED <<iter, palette, data, skip_plte>>
              ELSE IF c.chunk_type = IDAT
              THEN /\ pc' = "merge"
                   /\ skip_plte' = TRUE
                   /\ data' = None
                   /\ UNCHANGED <<call, err, iter, palette>>
              ELSE IF c.chunk_type = PLTE
              THEN IF c.len % 3 # 0 \/ palette.some
                   THEN /\ Fail(call, "InvalidData")
                        /\ UNCHANGED <<iter, palette, data, skip_plte>>
                   ELSE /\ palette' = Some(PaletteOf(c.data))
                        /\ iter' = Advance(iter, c)
                        /\ UNCHANGED <<pc, call, err, data, skip_plte>>
              ELSE IF is_critical(c.chunk_type)
              THEN /\ Fail(call, "UnsupportedFormat")
                   /\ UNCHANGED <<iter, palette, data, skip_plte>>
              ELSE /\ iter' = Advance(iter, c)
                   /\ UNCHANGED <<pc, call, err, palette, data, skip_plte>>
    /\ UNCHANGED <<paeth_args, paeth_ret, input, ptr32, slice, info, inflated, source, reconstructed,
                   prev_line, line, y, filter_type, image, rgba>>

\* get_idat_chunks(false): one iteration of the first loop
IdatPreScan ==
    /\ pc = "idat_prescan"
    /\ LET c == peek_chunk(iter)
       IN  /\ chunk' = c
           /\ IF ~c.ok
              THEN /\ Fail(call, "InvalidData")
                   /\ UNCHANGED iter
              ELSE IF c.chunk_type = IDAT
              THEN /\ pc' = "merge"
                   /\ UNCHANGED <<call, err, iter>>
              ELSE IF c.chunk_type = PLTE
              THEN /\ iter' = Advance(iter, c)
                   /\ UNCHANGED <<pc, call, err>>
              ELSE IF is_critical(c.chunk_type)
              THEN /\ Fail(call, "UnsupportedFormat")
                   /\ UNCHANGED iter
              ELSE /\ iter' = Advance(iter, c)
                   /\ UNCHANGED <<pc, call, err>>
    /\ UNCHANGED <<paeth_args, paeth_ret, input, ptr32, slice, info, skip_plte, palette, data, inflated,
                   source, reconstructed, prev_line, line, y, filter_type,
                   image, rgba>>

\* Cow<[u8]> values
Borrowed(v) == [cow |-> "Borrowed", v |-> v]
Owned(v) == [cow |-> "Owned", v |-> v]

\* Collect putting a later payload in front of the earlier ones
Collect_mut(d, payload) ==
    IF d.some THEN Some(Owned(payload \o d.v.v)) ELSE Some(Borrowed(payload))

\* the data buffer after an IDAT payload arrived
Collect(d, payload) ==
    IF d.some THEN Some(Owned(d.v.v \o payload)) ELSE Some(Borrowed(payload))

\* Merge going on past an IEND chunk met before any IDAT chunk
Merge_mut ==
    /\ pc = "merge"
    /\ LET c == peek_chunk(iter)
       IN  /\ chunk' = c
           /\ IF ~c.ok
              THEN /\ Fail(call, "InvalidData")
                   /\ UNCHANGED <<iter, data>>
              ELSE /\ iter' = Advance(iter, c)
                   /\ IF c.chunk_type = IEND
                      THEN /\ IF data.some
                              THEN /\ pc' = IF call = "decode" THEN "inflate"
                                            ELSE "collected"
                                   /\ UNCHANGED <<call, err>>
                              ELSE UNCHANGED <<pc, call, err>>
                           /\ UNCHANGED data
                      ELSE IF c.chunk_type # IDAT
                      THEN /\ IF is_critical(c.chunk_type)
                              THEN Fail(call, "UnsupportedFormat")
                              ELSE UNCHANGED <<pc, call, err>>
                           /\ UNCHANGED data
                      ELSE /\ data' = Collect(data, c.data)
                           /\ UNCHANGED <<pc, call, err>>
    /\ UNCHANGED <<paeth_args, paeth_ret, input, ptr32, slice, info, skip_plte, palette, inflated,
                   source, reconstructed, prev_line, line, y, filter_type,
                   image, rgba>>

\* Merge returning the payload collected when the stream is exhausted
Merge_eof_mut ==
    /\ pc = "merge"
    /\ LET c == peek_chunk(iter)
       IN  /\ chunk' = c
           /\ IF ~c.ok
              THEN /\ IF iter = <<>> /\ data.some
                      THEN /\ pc' = IF call = "decode" THEN "inflate"
                                    ELSE "collected"
                           /\ UNCHANGED <<call, err>>
                      ELSE Fail(call, "InvalidData")
                   /\ UNCHANGED <<iter, data>>
              ELSE /\ iter' = Advance(iter, c)
                   /\ IF c.chunk_type = IEND
                      THEN /\ IF data.some
                              THEN /\ pc' = IF call = "decode" THEN "inflate"
                                            ELSE "collected"
                                   /\ UNCHANGED <<call, err>>
                              ELSE Fail(call, "InvalidData")
                           /\ UNCHANGED data
                      ELSE IF c.chunk_type # IDAT
                      THEN /\ IF is_critical(c.chunk_type)
                              THEN Fail(call, "UnsupportedFormat")
                              ELSE UNCHANGED <<pc, call, err>>
                           /\ UNCHANGED data
                      ELSE /\ data' = Collect(data, c.data)
                           /\ UNCHANGED <<pc, call, err>>
    /\ UNCHANGED <<paeth_args, paeth_ret, input, ptr32, slice, info, skip_plte, palette, inflated,
                   source, reconstructed, prev_line, line, y, filter_type,
                   image, rgba>>

\* get_idat_chunks: one iteration of the merge loop; at IEND the function
\* returns data.ok_or(InvalidData)
Merge ==
    /\ pc = "merge"
    /\ LET c == peek_chunk(iter)
       IN  /\ chunk' = c
           /\ IF ~c.ok
              THEN /\ Fail(call, "InvalidData")
                   /\ UNCHANGED <<iter, data>>
              ELSE /\ iter' = Advance(iter, c)
                   /\ IF c.chunk_type = IEND
                      THEN /\ IF data.some
                              THEN /\ pc' = IF call = "decode" THEN "inflate"
                                            ELSE "collected"
                                   /\ UNCHANGED <<call, err>>
                              ELSE Fail(call, "InvalidData")
                           /\ UNCHANGED data
                      ELSE IF c.chunk_type # IDAT
                      THEN /\ IF is_critical(c.chunk_type)
                              THEN Fail(call, "UnsupportedFormat")
                              ELSE UNCHANGED <<pc, call, err>>
                           /\ UNCHANGED data
                      ELSE /\ data' = Collect(data, c.data)
                           /\ UNCHANGED <<pc, call, err>>
    /\ UNCHANGED <<paeth_args, paeth_ret, input, ptr32, slice, info, skip_plte, palette, inflated,
                   source, reconstructed, prev_line, line, y, filter_type,
                   image, rgba>>

(***************************************************************************)
(* The outputs of the external Deflate::inflate that the model draws from: *)
(* rows of a filter byte and stride data bytes, complete or cut short      *)
(***************************************************************************)
MaxWidth == 9
MaxHeight == 2
MaxInflated == 10
MaxChunks == 4

DataBytes == {1, 176}

FilterBytes == 0..4

RowsOf(stride) == {<<f>> \o d : f \in FilterBytes, d \in [1..stride -> DataBytes]}

RECURSIVE RowSeqs(_, _)
RowSeqs(stride, k) ==
    IF k = 0 THEN {<<>>}
    ELSE {r \o t : r \in RowsOf(stride), t \in RowSeqs(stride, k - 1)}

\* a missing row, a row cut after its filter byte, a row with filter byte 5
Tails(stride) == {<<>>, <<0>>, <<5>> \o [c \in 1..stride |-> 1]}

InflateOutputs(i) ==
    RowSeqs(Stride(i), i.height) \cup
    UNION {{p \o t : p \in RowSeqs(Stride(i), k), t \in Tails(Stride(i))} :
              k \in 0..(i.height - 1)}

\* decode: Deflate::inflate(&data, limit), an external function: it fails or
\* returns some byte sequence
Inflate ==
    /\ pc = "inflate"
    /\ \/ /\ Fail(call, "InvalidData")
          /\ UNCHANGED <<inflated, source, reconstructed, prev_line, line, y>>
       \/ \E out \in InflateOutputs(info) :
            /\ Len(out) <= InflateLimit(info)
            /\ inflated' = out
            /\ source' = out
            /\ reconstructed' = <<>>
            /\ prev_line' = <<>>
            /\ line' = <<>>
            /\ y' = 0
            /\ pc' = "rows"
            /\ UNCHANGED <<call, err>>
    /\ UNCHANGED <<paeth_args, paeth_ret, input, ptr32, slice, info, skip_plte, iter, chunk, palette,
                   data, filter_type, image, rgba>>

\* decode: one iteration of the loop over the rows
Row ==
    /\ pc = "rows"
    /\ y < info.height
    /\ LET stride == Stride(info)
           ft == IF source = <<>> THEN None ELSE FilterTypeNew(Head(source))
       IN  IF source = <<>> \/ ~ft.some \/ Len(source) - 1 < stride
           THEN /\ Fail(call, "InvalidData")
                /\ UNCHANGED <<source, reconstructed, prev_line, line, y,
                               filter_type>>
           ELSE LET line_src == SubSeq(source, 2, 1 + stride)
                    new_line == ReconstructRow(ft.v, line_src, prev_line,
                                               n_channels(info.image_type))
                IN  /\ filter_type' = ft.v
                    /\ reconstructed' = reconstructed \o new_line
                    /\ prev_line' = new_line
                    /\ line' = prev_line
                    /\ source' = Drop(source, 1 + stride)
                    /\ y' = y + 1
                    /\ pc' = IF y + 1 < info.height THEN "rows"
                             ELSE IF info.bit_depth < 8 THEN "fix"
                             ELSE "check"
                    /\ UNCHANGED <<call, err>>
    /\ UNCHANGED <<paeth_args, paeth_ret, input, ptr32, slice, info, skip_plte, iter, chunk, palette,
                   data, inflated, image, rgba>>

\* decode: "fix bit depth less than 8"
FixBitDepth ==
    /\ pc = "fix"
    /\ LET r == FixBitDepthOf(reconstructed, info)
       IN  IF r.panic
           THEN /\ Fail(call, "panic")
                /\ UNCHANGED reconstructed
           ELSE /\ reconstructed' = r.fixed
                /\ pc' = "check"
                /\ UNCHANGED <<call, err>>
    /\ UNCHANGED <<paeth_args, paeth_ret, input, ptr32, slice, info, skip_plte, iter, chunk, palette,
                   data, inflated, source, prev_line, line, y, filter_type,
                   image, rgba>>

MaxOf(s) == CHOOSE m \in {s[k] : k \in 1..Len(s)} : \A k \in 1..Len(s) : s[k] <= m

\* the largest number of palette entries an Indexed image may have
MaxPaletteLen == 256

\* the outcome of the "pallete check" of decode
PaletteCheckOf(i, pal, samples) ==
    IF i.image_type # "Indexed" THEN "none"
    ELSE IF ~pal.some THEN "InvalidData"
    ELSE IF samples = <<>> THEN "panic"
    ELSE IF Len(pal.v) > MaxPaletteLen \/ MaxOf(samples) >= Len(pal.v) THEN "InvalidData"
    ELSE "none"

NoImage == [info |-> NoInfo, palette |-> <<>>, data |-> <<>>]

\* decode: the palette check and the construction of the ImageData
Finish ==
    /\ pc = "check"
    /\ LET e == PaletteCheckOf(info, palette, reconstructed)
       IN  IF e # "none"
           THEN /\ Fail(call, e)
                /\ UNCHANGED image
           ELSE /\ image' = [info |-> info,
                             palette |-> IF palette.some THEN palette.v ELSE <<>>,
                             data |-> reconstructed]
                /\ pc' = "decoded"
                /\ UNCHANGED <<call, err>>
    /\ UNCHANGED <<paeth_args, paeth_ret, input, ptr32, slice, info, skip_plte, iter, chunk, palette,
                   data, inflated, source, reconstructed, prev_line, line, y,
                   filter_type, rgba>>

\* ImageData::to_rgba_bytes
ToRgbaBytes ==
    /\ pc = "decoded"
    /\ LET r == to_rgba_bytes(image.info.image_type, image.data, image.palette)
       IN  IF r.panic
           THEN /\ Fail("to_rgba_bytes", "panic")
                /\ UNCHANGED rgba
           ELSE /\ rgba' = r.bytes
                /\ pc' = "converted"
                /\ call' = "to_rgba_bytes"
                /\ UNCHANGED err
    /\ UNCHANGED <<paeth_args, paeth_ret, input, ptr32, slice, info, skip_plte, iter, chunk, palette,
                   data, inflated, source, reconstructed, prev_line, line, y,
                   filter_type, image>>

(***************************************************************************)
(* The input files the model draws from                                    *)
(***************************************************************************)
Crc == <<0, 0, 0, 0>>

Chunk(tag, payload) == from_u32(Len(payload)) \o tag \o payload \o Crc

Header(w, h, bd, ct, cm, fm, im) ==
    PNG_SIGNATURE \o Chunk(IHDR, from_u32(w) \o from_u32(h) \o <<bd, ct, cm, fm, im>>)

\* the (color type, bit depth) pairs of the images the decoder accepts
Formats == {<<0, 8>>, <<2, 8>>, <<3, 1>>, <<3, 2>>, <<3, 4>>, <<3, 8>>, <<4, 8>>, <<6, 8>>}

\* n palette entries <<i, 2i, 3i>>, i = 0..n-1
PaletteBytes(n) == [k \in 1..(3 * n) |-> (((k - 1) \div 3) * (((k - 1) % 3) + 1)) % 256]

PaletteSizes == {2, 16, 257}

IdatOnly == Chunk(IDAT, <<120>>) \o Chunk(IEND, <<>>)

PixelStreams(ct) ==
    {IdatOnly} \cup
    {Chunk(PLTE, PaletteBytes(n)) \o IdatOnly :
        n \in IF ct = 3 THEN PaletteSizes ELSE {2}}

\* files of every accepted format whose inflated size is within MaxInflated
PixelInputs ==
    {f \in UNION {{Header(w, h, fmt[2], fmt[1], 0, 0, 0) \o st :
                      w \in 1..MaxWidth, h \in 1..MaxHeight,
                      st \in PixelStreams(fmt[1])} : fmt \in Formats} :
        LET i == new(f, FALSE).info
        IN  (1 + Stride(i)) * i.height <= MaxInflated}

tEXt == <<116, 69, 88, 116>>
TEXt == <<84, 69, 88, 116>>

ChunkMenu ==
    {Chunk(IDAT, <<7>>), Chunk(IDAT, <<8, 9>>), Chunk(PLTE, <<1, 2, 3>>),
     Chunk(PLTE, <<1, 2, 3, 4>>), Chunk(IEND, <<>>), Chunk(tEXt, <<5>>),
     Chunk(TEXt, <<5>>)}

\* a 1x1 grayscale header followed by up to MaxChunks chunks of the menu
ChunkInputs ==
    {Header(1, 1, 8, 0, 0, 0, 0) \o Flatten(cs) :
        cs \in UNION {[1..k -> ChunkMenu] : k \in 0..MaxChunks}}

\* headers with every combination of the field values below
FieldInputs ==
    {Header(w, h, bd, ct, cm, fm, im) \o IdatOnly :
        w \in {0, 1, 3, 268435456}, h \in {0, 1, 2}, bd \in {1, 2, 4, 8, 16},
        ct \in {0, 1, 2, 3, 4, 6}, cm \in {0, 1}, fm \in {0, 1}, im \in {0, 1}}

IHDr == <<73, 72, 68, 114>>
IHD1 == <<73, 72, 68, 49>>

\* a first chunk with the declared length and tag below, 13 payload bytes
FirstChunk(len, tag, w, h, bd, im) ==
    from_u32(len) \o tag \o from_u32(w) \o from_u32(h) \o <<bd, 0, 0, 0, im>> \o Crc

\* files whose first chunk has each declared length and tag, on headers with
\* zero and nonzero dimensions and supported and unsupported fields
FramedInputs ==
    {PNG_SIGNATURE \o FirstChunk(len, tag, w, h, bd, im) \o IdatOnly :
        len \in {0, 12, 13, 14, 269}, tag \in {IHDR, IDAT, IHDr, IHD1},
        w \in {0, 1}, h \in {0, 1}, bd \in {8, 3}, im \in {0, 1}}

\* the signature with byte k changed
BadSignature(k) == [PNG_SIGNATURE EXCEPT ![k] = (@ + 1) % 256]

\* files with one signature byte changed, and files cut after n bytes
DamagedInputs ==
    LET file(w, bd) == Chunk(IHDR, from_u32(w) \o from_u32(1) \o <<bd, 0, 0, 0, 0>>)
                       \o IdatOnly
    IN  {BadSignature(k) \o file(w, bd) : k \in 1..8, w \in {0, 1}, bd \in {8, 3}}
        \cup {Take(PNG_SIGNATURE \o file(w, bd), n) :
                 n \in 0..34, w \in {0, 1}, bd \in {8, 3}}

HeaderInputs == FieldInputs \cup FramedInputs \cup DamagedInputs

MaxFrames == 3

Crc1 == <<1, 2, 3, 4>>

IDA1 == <<73, 68, 65, 49>>
IDaT == <<73, 68, 97, 84>>

\* a chunk with the checksum bytes given
Frame(tag, payload, crc) == from_u32(Len(payload)) \o tag \o payload \o crc

\* chunks with either checksum, a tag with a digit, a tag with the reserved
\* bit set, an unknown critical chunk, a chunk declaring 2 bytes more than
\* it holds, and a stray byte
FrameMenu ==
    {Frame(tag, payload, crc) :
        tag \in {IDAT, IEND, tEXt}, payload \in {<<7>>}, crc \in {Crc, Crc1}}
    \cup {Frame(PLTE, <<1, 2, 3>>, crc) : crc \in {Crc, Crc1}}
    \cup {Frame(IEND, <<>>, crc) : crc \in {Crc, Crc1}}
    \cup {Frame(IDA1, <<7>>, Crc), Frame(IDaT, <<7>>, Crc),
          Frame(TEXt, <<7>>, Crc), from_u32(3) \o IDAT \o <<7>> \o Crc, <<9>>}

\* a 1x1 grayscale header with either checksum followed by up to MaxFrames
\* items of the menu
FrameInputs ==
    {PNG_SIGNATURE \o Frame(IHDR, from_u32(1) \o from_u32(1) \o <<8, 0, 0, 0, 0>>, crc)
        \o Flatten(cs) :
        crc \in {Crc, Crc1},
        cs \in UNION {[1..k -> FrameMenu] : k \in 0..MaxFrames}}

(***************************************************************************)
(* Specifications                                                          *)
(***************************************************************************)
InitWith(inputs, builds) ==
    /\ input \in inputs
    /\ ptr32 \in builds
    /\ pc = "new"
    /\ call = "none"
    /\ err = "none"
    /\ slice = <<>>
    /\ info = NoInfo
    /\ skip_plte = FALSE
    /\ iter = <<>>
    /\ chunk = NoChunk
    /\ palette = None
    /\ data = None
    /\ inflated = <<>>
    /\ source = <<>>
    /\ reconstructed = <<>>
    /\ prev_line = <<>>
    /\ line = <<>>
    /\ y = 0
    /\ filter_type = "none"
    /\ image = NoImage
    /\ rgba = <<>>
    /\ paeth_args = <<0, 0, 0>>
    /\ paeth_ret = 0

\* the whole program on files of every accepted format
Init == InitWith(PixelInputs, {FALSE})

Next ==
    \/ New
    \/ DecodeBegin
    \/ GetIdatChunksBegin
    \/ PreScan
    \/ IdatPreScan
    \/ Merge
    \/ Inflate
    \/ Row
    \/ FixBitDepth
    \/ Finish
    \/ ToRgbaBytes

Spec == Init /\ [][Next]_vars

\* the chunk walk on every chunk stream of the menu
InitChunks == InitWith(ChunkInputs, {FALSE})

NextChunks ==
    \/ New
    \/ DecodeBegin
    \/ GetIdatChunksBegin
    \/ PreScan
    \/ IdatPreScan
    \/ Merge

SpecChunks == InitChunks /\ [][NextChunks]_vars

\* PngDecoder::new on every header, on 32-bit and 64-bit builds
InitNew == InitWith(HeaderInputs, BOOLEAN)

NextNew == New

SpecNew == InitNew /\ [][NextNew]_vars

\* the chunk walk on streams with damaged framing and either checksum
InitFrames == InitWith(FrameInputs, {FALSE})

NextFrames ==
    \/ New
    \/ DecodeBegin
    \/ GetIdatChunksBegin
    \/ PreScan
    \/ IdatPreScan
    \/ Merge

SpecFrames == InitFrames /\ [][NextFrames]_vars

\* the lowest MaxByteSample + 1 bytes, the highest, and those around 128
MaxByteSample == 9

ByteSamples ==
    (0..MaxByteSample) \cup ((255 - MaxByteSample)..255) \cup (124..131)

\* one call of paeth(left, above, upper_left)
Paeth ==
    /\ pc = "paeth"
    /\ paeth_ret' = paeth(paeth_args[1], paeth_args[2], paeth_args[3])
    /\ pc' = "paeth_done"
    /\ UNCHANGED <<paeth_args, input, ptr32, call, err, slice, info, skip_plte,
                   iter, chunk, palette, data, inflated, source, reconstructed,
                   prev_line, line, y, filter_type, image, rgba>>

\* paeth on every triple of sampled bytes
InitPaeth ==
    /\ paeth_args \in ByteSamples \X ByteSamples \X ByteSamples
    /\ paeth_ret = 0
    /\ pc = "paeth"
    /\ input = <<>>
    /\ ptr32 = FALSE
    /\ call = "paeth"
    /\ err = "none"
    /\ slice = <<>>
    /\ info = NoInfo
    /\ skip_plte = FALSE
    /\ iter = <<>>
    /\ chunk = NoChunk
    /\ palette = None
    /\ data = None
    /\ inflated = <<>>
    /\ source = <<>>
    /\ reconstructed = <<>>
    /\ prev_line = <<>>
    /\ line = <<>>
    /\ y = 0
    /\ filter_type = "none"
    /\ image = NoImage
    /\ rgba = <<>>

NextPaeth == Paeth

SpecPaeth == InitPaeth /\ [][NextPaeth]_vars

(***************************************************************************)
(* Properties of the pixel pipeline (checked under Spec)                   *)
(***************************************************************************)
\* the filtered bytes of the row the next Row step reads, when it can read it
RowReadable ==
    /\ pc = "rows"
    /\ source # <<>>
    /\ Head(source) \in 0..4
    /\ Len(source) - 1 >= Stride(info)

NextLineSrc == SubSeq(source, 2, 1 + Stride(info))

\* C1: whenever new and decode succeeded, to_rgba_bytes returns exactly
\* width * height * 4 bytes.
C1_RgbaLength ==
    pc = "converted" => Len(rgba) = info.width * info.height * 4

\* C2: the bit depth fix turns a packed buffer of height rows of stride bytes
\* into width samples per row, sample k of a row being the k-th d-bit group
\* of the row's bytes counted from the most significant bits, also in the
\* last, partially used byte of the row.
C2_UnpackMsbFirst ==
    [][(pc = "fix" /\ pc' = "check"
        /\ Len(reconstructed) = Stride(info) * info.height)
       => /\ Len(reconstructed') = info.width * info.height
          /\ \A r \in 0..(info.height - 1) : \A k \in 0..(info.width - 1) :
               LET d == info.bit_depth
                   byte == reconstructed[r * Stride(info) + ((k * d) \div 8) + 1]
               IN  reconstructed'[r * info.width + k + 1]
                     = (byte \div Pow2(8 - d - ((k * d) % 8))) % Pow2(d)]_vars

\* C3: a first row with filter selector 4 (Paeth) is reconstructed against an
\* all-zero row above: it contributes stride bytes and the bytes of its first
\* pixel are the filtered bytes.
C3_PaethFirstRow ==
    [][(RowReadable /\ y = 0 /\ Head(source) = 4)
       => /\ Len(reconstructed') = Len(reconstructed) + Stride(info)
          /\ Len(prev_line') = Stride(info)
          /\ \A c \in 1..n_channels(info.image_type) :
               c <= Stride(info) => prev_line'[c] = NextLineSrc[c]]_vars

\* C4: a row with filter selector 0 is its filtered bytes; a row with filter
\* selector 1 satisfies output[i] = (filtered[i] + output[i - n_channels])
\* mod 256 with output[j] = 0 for j < 0; the row is appended to the
\* reconstructed buffer.
C4_NoneAndSub ==
    [][(RowReadable /\ Head(source) \in {0, 1})
       => LET n == n_channels(info.image_type)
              out == prev_line'
          IN  /\ Len(out) = Stride(info)
              /\ reconstructed' = reconstructed \o out
              /\ Head(source) = 0 => out = NextLineSrc
              /\ Head(source) = 1 =>
                   \A i \in 1..Stride(info) :
                     out[i] = (NextLineSrc[i] + (IF i > n THEN out[i - n] ELSE 0)) % 256]_vars

\* C4 witness: a two pixel RGBA row was reconstructed with Sub, the second
\* pixel wrapping around in two lanes
C4_Witness ==
    /\ filter_type = "Sub"
    /\ info.image_type = "RGBA"
    /\ info.width = 2
    /\ prev_line = <<176, 1, 1, 176, 96, 2, 177, 96>>

\* C5: decode of an Indexed image whose rows were all reconstructed returns
\* InvalidData when there is no palette or the palette has more than 256
\* entries, and every sample of a decoded Indexed image is below the length
\* of its palette.
C5_PaletteCheck ==
    (call = "decode" /\ info.image_type = "Indexed" /\ y = info.height
     /\ pc \in {"failed", "decoded"})
    => /\ (~palette.some \/ Len(palette.v) > 256)
            => (pc = "failed" /\ err = "InvalidData")
       /\ pc = "decoded" =>
            \A k \in 1..Len(image.data) : image.data[k] < Len(image.palette)

(***************************************************************************)
(* Properties of the chunk walk (checked under SpecChunks)                 *)
(***************************************************************************)
\* the chunks of s up to the first IEND chunk or the first malformed chunk
RECURSIVE ChunksOf(_)
ChunksOf(s) ==
    LET c == peek_chunk(s)
    IN  IF ~c.ok THEN <<>>
        ELSE IF c.chunk_type = IEND THEN <<c>>
        ELSE <<c>> \o ChunksOf(Advance(s, c))

RECURSIVE IdatConcat(_)
IdatConcat(cs) ==
    IF cs = <<>> THEN <<>>
    ELSE (IF Head(cs).chunk_type = IDAT THEN Head(cs).data ELSE <<>>)
         \o IdatConcat(Tail(cs))

WalkOver == pc \in {"failed", "collected", "inflate"}

\* neither palette, data-bearing nor end-marker, and the ancillary bit clear
UnknownCritical(c) ==
    c.chunk_type \notin {PLTE, IDAT, IEND} /\ (c.chunk_type[1] \div 32) % 2 = 0

\* C6: a chunk stream that reaches IEND with no IDAT chunk, with at most one
\* well-formed palette chunk and no unknown critical chunk, fails with
\* InvalidData in decode and in get_idat_chunks(false) and (true).
C6_NoIdatIsInvalidData ==
    LET cs == ChunksOf(slice)
    IN  (/\ WalkOver
         /\ cs # <<>>
         /\ cs[Len(cs)].chunk_type = IEND
         /\ \A k \in 1..Len(cs) :
              /\ cs[k].chunk_type # IDAT
              /\ ~UnknownCritical(cs[k])
              /\ cs[k].chunk_type = PLTE => cs[k].len % 3 = 0
         /\ Cardinality({k \in 1..Len(cs) : cs[k].chunk_type = PLTE}) <= 1)
        => (pc = "failed" /\ err = "InvalidData")

\* C7: decode fails with InvalidData whenever the stream holds, before the
\* end-marker and not behind an unknown critical chunk, a palette chunk whose
\* length is not a multiple of 3 or a second palette chunk, before or after
\* the first data chunk.
C7_BadPaletteIsInvalidData ==
    LET cs == ChunksOf(slice)
    IN  (/\ WalkOver
         /\ call = "decode"
         /\ \E k \in 1..Len(cs) :
              /\ cs[k].chunk_type = PLTE
              /\ \/ cs[k].len % 3 # 0
                 \/ \E j \in 1..(k - 1) : cs[j].chunk_type = PLTE
              /\ \A j \in 1..(k - 1) : ~UnknownCritical(cs[j]))
        => (pc = "failed" /\ err = "InvalidData")

\* C8: in the chunk walk a chunk that is neither PLTE, IDAT nor IEND is
\* skipped, leaving palette, data and the outcome as they were and moving the
\* cursor past it, when bit 5 of its first tag byte is set, and makes the
\* walk fail with UnsupportedFormat when that bit is clear.
C8_UnknownChunks ==
    [][LET c == peek_chunk(iter)
       IN  (/\ pc \in {"prescan", "idat_prescan", "merge"}
            /\ c.ok
            /\ c.chunk_type \notin {PLTE, IDAT, IEND})
           => IF (c.chunk_type[1] \div 32) % 2 = 1
              THEN /\ pc' = pc
                   /\ err' = err
                   /\ palette' = palette
                   /\ data' = data
                   /\ iter' = SubSeq(iter, c.len + 13, Len(iter))
              ELSE /\ pc' = "failed"
                   /\ err' = "UnsupportedFormat"]_vars

\* C8 witness: decode skipped a leading tEXt chunk in the pre-scan, collected
\* an IDAT chunk and was stopped by a TEXt chunk in the merge pass
C8_Witness ==
    /\ call = "decode"
    /\ pc = "failed"
    /\ err = "UnsupportedFormat"
    /\ peek_chunk(slice).ok
    /\ peek_chunk(slice).chunk_type = tEXt
    /\ data.some
    /\ chunk.ok
    /\ chunk.chunk_type = TEXt

\* C9: get_idat_chunks returns the payloads of the IDAT chunks before the
\* end-marker, concatenated in arrival order, however the bytes are split
\* into chunks and whatever ancillary chunks lie between them.
C9_IdatConcatenation ==
    pc \in {"collected", "inflate"}
    => /\ data.some
       /\ data.v.v = IdatConcat(ChunksOf(slice))

\* C9 witness: two IDAT chunks with a tEXt chunk between them were merged
C9_Witness ==
    /\ pc = "collected"
    /\ data.some
    /\ data.v.cow = "Owned"
    /\ data.v.v = <<7, 8, 9>>
    /\ Len(ChunksOf(slice)) = 4
    /\ ChunksOf(slice)[2].chunk_type = tEXt

(***************************************************************************)
(* Properties of PngDecoder::new (checked under SpecNew)                   *)
(***************************************************************************)
\* the fields of the first chunk, read from the input bytes
HdrLength == as_u32(SubSeq(input, 9, 12))
HdrTag == SubSeq(input, 13, 16)
HdrWidth == as_u32(SubSeq(input, 17, 20))
HdrHeight == as_u32(SubSeq(input, 21, 24))
HdrBitDepth == input[25]
HdrColorType == input[26]
HdrMethods == SubSeq(input, 27, 29)

HeaderWellFramed ==
    /\ Len(input) >= 33
    /\ SubSeq(input, 1, 8) = <<137, 80, 78, 71, 13, 10, 26, 10>>
    /\ HdrLength = 13
    /\ HdrTag = <<73, 72, 68, 82>>
    /\ HdrWidth # 0
    /\ HdrHeight # 0

AcceptedPair ==
    <<HdrColorType, HdrBitDepth>> \in
        {<<0, 8>>, <<2, 8>>, <<3, 1>>, <<3, 2>>, <<3, 4>>, <<3, 8>>, <<4, 8>>, <<6, 8>>}

\* C10 as stated: with a correct signature, a well-framed 13-byte IHDR and
\* nonzero dimensions, new succeeds exactly when the pair is accepted and the
\* three method bytes are 0, and fails with UnsupportedFormat otherwise.
C10_AsStated ==
    (pc # "new" /\ HeaderWellFramed)
    => IF AcceptedPair /\ HdrMethods = <<0, 0, 0>>
       THEN pc = "ready" /\ err = "none"
       ELSE pc = "failed" /\ err = "UnsupportedFormat"

\* C10 amended: as C10, and on a build for 32-bit pointers new succeeds only
\* if also width * height <= 0x1000_0000, failing with UnsupportedFormat
\* otherwise.
C10_HeaderAcceptance ==
    (pc # "new" /\ HeaderWellFramed)
    => IF /\ AcceptedPair
          /\ HdrMethods = <<0, 0, 0>>
          /\ ptr32 => HdrWidth * HdrHeight <= 268435456
       THEN pc = "ready" /\ err = "none"
                         /\ info.width = HdrWidth /\ info.height = HdrHeight
                         /\ info.bit_depth = HdrBitDepth
       ELSE pc = "failed" /\ err = "UnsupportedFormat"

\* C10 witness: a 32-bit build accepted a 4-bit indexed header at the largest
\* resolution it allows
C10_Witness ==
    /\ pc = "ready"
    /\ ptr32
    /\ info = [width |-> 268435456, height |-> 1, bit_depth |-> 4,
               image_type |-> "Indexed"]

(***************************************************************************)
(* Properties of the signature and of the first chunk (checked under       *)
(* SpecNew)                                                                *)
(***************************************************************************)
SignatureOk ==
    Len(input) >= 8 /\ SubSeq(input, 1, 8) = <<137, 80, 78, 71, 13, 10, 26, 10>>

\* C11: behind a correct signature, new fails with InvalidData when fewer than
\* 25 bytes follow, when the first chunk's tag is not IHDR, when its declared
\* length is not 13, or when the width or the height is 0; a zero dimension
\* gives InvalidData whatever the bit depth, color type, methods or build.
C11_FirstChunkInvalidData ==
    (/\ pc # "new"
     /\ SignatureOk
     /\ \/ Len(input) < 33
        \/ HdrLength # 13
        \/ HdrTag # <<73, 72, 68, 82>>
        \/ HdrWidth = 0
        \/ HdrHeight = 0)
    => pc = "failed" /\ call = "new" /\ err = "InvalidData"

\* a well-framed header of width 0 whose bit depth is unsupported, on a
\* 32-bit build, refused as InvalidData
C11_Witness ==
    /\ pc = "failed"
    /\ err = "InvalidData"
    /\ ptr32
    /\ SignatureOk
    /\ Len(input) >= 33
    /\ HdrLength = 13
    /\ HdrTag = <<73, 72, 68, 82>>
    /\ HdrWidth = 0
    /\ HdrHeight = 1
    /\ HdrBitDepth = 3

\* C12: new fails with InvalidData on every input shorter than 8 bytes and on
\* every input whose first 8 bytes differ from the signature, whatever
\* follows them.
C12_BadSignatureInvalidData ==
    (pc # "new" /\ ~SignatureOk)
    => pc = "failed" /\ call = "new" /\ err = "InvalidData"

\* an otherwise acceptable file whose last signature byte is changed
C12_Witness ==
    /\ pc = "failed"
    /\ err = "InvalidData"
    /\ Len(input) >= 33
    /\ SubSeq(input, 1, 8) = <<137, 80, 78, 71, 13, 10, 26, 11>>
    /\ HdrLength = 13
    /\ HdrTag = <<73, 72, 68, 82>>
    /\ HdrWidth = 1
    /\ HdrHeight = 1
    /\ HdrBitDepth = 8

(***************************************************************************)
(* Properties of the chunk framing (checked under SpecFrames)              *)
(***************************************************************************)
DeclaredLength(s) == s[1] * 16777216 + s[2] * 65536 + s[3] * 256 + s[4]

Letter(b) == b \in 65..90 \/ b \in 97..122

\* s starts with a whole chunk: 12 bytes or more, a tag of four letters with
\* bit 5 of its third byte clear, and the declared payload and the checksum
\* within s
WellFramed(s) ==
    /\ Len(s) >= 12
    /\ \A k \in 5..8 : Letter(s[k])
    /\ (s[7] \div 32) % 2 = 0
    /\ DeclaredLength(s) + 12 <= Len(s)

\* s with the checksum bytes of its chunks set to 0, up to the first bytes
\* that are not a whole chunk
RECURSIVE ZeroCrcs(_)
ZeroCrcs(s) ==
    IF ~WellFramed(s) THEN s
    ELSE SubSeq(s, 1, 8 + DeclaredLength(s)) \o <<0, 0, 0, 0>>
         \o ZeroCrcs(SubSeq(s, DeclaredLength(s) + 13, Len(s)))

\* s cut behind its first IEND chunk
RECURSIVE CutAfterIend(_)
CutAfterIend(s) ==
    IF ~WellFramed(s) THEN s
    ELSE IF SubSeq(s, 5, 8) = <<73, 69, 78, 68>>
    THEN SubSeq(s, 1, DeclaredLength(s) + 12)
    ELSE SubSeq(s, 1, DeclaredLength(s) + 12)
         \o CutAfterIend(SubSeq(s, DeclaredLength(s) + 13, Len(s)))

WalkErr(e) == [ok |-> FALSE, err |-> e]

\* the merge pass as a function of the unread bytes s, the payload d
\* collected so far and the palette pal
RECURSIVE MergeOutcome(_, _, _)
MergeOutcome(s, d, pal) ==
    LET c == peek_chunk(s)
    IN  IF ~c.ok THEN WalkErr("InvalidData")
        ELSE IF c.chunk_type = IEND
        THEN IF d.some THEN [ok |-> TRUE, palette |-> pal, data |-> d.v]
             ELSE WalkErr("InvalidData")
        ELSE IF c.chunk_type = IDAT
        THEN MergeOutcome(Advance(s, c),
                          Some(IF d.some THEN d.v \o c.data ELSE c.data), pal)
        ELSE IF is_critical(c.chunk_type) THEN WalkErr("UnsupportedFormat")
        ELSE MergeOutcome(Advance(s, c), d, pal)

\* the scan for the first IDAT chunk as a function of the unread bytes s;
\* decode (dec) keeps the palette, get_idat_chunks(false) passes it over
RECURSIVE ScanOutcome(_, _, _)
ScanOutcome(s, pal, dec) ==
    LET c == peek_chunk(s)
    IN  IF ~c.ok THEN WalkErr("InvalidData")
        ELSE IF c.chunk_type = IDAT THEN MergeOutcome(s, None, pal)
        ELSE IF c.chunk_type = PLTE
        THEN IF ~dec THEN ScanOutcome(Advance(s, c), pal, dec)
             ELSE IF c.len % 3 # 0 \/ pal.some THEN WalkErr("InvalidData")
             ELSE ScanOutcome(Advance(s, c), Some(PaletteOf(c.data)), dec)
        ELSE IF is_critical(c.chunk_type) THEN WalkErr("UnsupportedFormat")
        ELSE ScanOutcome(Advance(s, c), pal, dec)

\* what the call made in this behavior returns on the chunk stream s
WalkOutcome(s) ==
    IF call = "decode" THEN ScanOutcome(s, None, TRUE)
    ELSE IF skip_plte THEN MergeOutcome(s, None, None)
    ELSE ScanOutcome(s, None, FALSE)

\* what the chunk walk of this behavior returned
Outcome ==
    IF pc = "failed" THEN WalkErr(err)
    ELSE [ok |-> TRUE, palette |-> palette, data |-> data.v.v]

\* the input with the checksum bytes of all its chunks set to 0
ZeroedInput ==
    IF Len(input) < 33 THEN input
    ELSE SubSeq(input, 1, 29) \o <<0, 0, 0, 0>>
         \o ZeroCrcs(SubSeq(input, 34, Len(input)))

\* C13: checksums are never verified: new returns on an input what it returns
\* on the same input with all checksum bytes set to 0, and decode and
\* get_idat_chunks return what they return on the chunk stream with all
\* checksum bytes set to 0; so inputs that differ only in checksum bytes have
\* the same outcome.
C13_ChecksumsIgnored ==
    /\ (pc = "ready" \/ (pc = "failed" /\ call = "new"))
       => LET r == new(ZeroedInput, ptr32)
          IN  err = r.err /\ info = r.info /\ ZeroCrcs(slice) = r.slice
    /\ (WalkOver /\ call # "new") => Outcome = WalkOutcome(ZeroCrcs(slice))

\* decode reached inflate with a palette on a file whose IHDR chunk and last
\* chunk read both carry checksum bytes 1, 2, 3, 4
C13_Witness ==
    /\ pc = "inflate"
    /\ palette.some
    /\ SubSeq(input, 30, 33) = <<1, 2, 3, 4>>
    /\ chunk.ok
    /\ chunk.crc = 16909060
    /\ slice # ZeroCrcs(slice)

\* C14: the walk reads nothing behind the first IEND chunk: decode and
\* get_idat_chunks return on a stream what they return on the stream cut
\* behind its first IEND chunk.
C14_NothingReadAfterIend ==
    (WalkOver /\ call # "new") => Outcome = WalkOutcome(CutAfterIend(slice))

\* decode returned from the merge pass with an unknown critical chunk unread
\* behind the IEND chunk
C14_Witness ==
    /\ pc = "inflate"
    /\ chunk.ok
    /\ chunk.chunk_type = <<73, 69, 78, 68>>
    /\ Len(iter) >= 12
    /\ SubSeq(iter, 5, 8) = <<84, 69, 88, 116>>

\* C15: a step that only peeks (a scan leaving its loop, or any failing step)
\* leaves the cursor where it was; a step whose next_chunk succeeds returns
\* the chunk peek_chunk returns at the cursor and moves the cursor forward by
\* the declared length plus 12.
C15_CursorDiscipline ==
    [][LET c == peek_chunk(iter)
           past == SubSeq(iter, DeclaredLength(iter) + 13, Len(iter))
       IN  pc \in {"prescan", "idat_prescan", "merge"}
           => (/\ chunk' = c
               /\ ~c.ok => (iter' = iter /\ pc' = "failed")
               /\ c.ok =>
                   IF pc = "merge" THEN iter' = past
                   ELSE IF pc' # pc THEN iter' = iter
                   ELSE iter' = past)]_vars

\* the merge pass took an IDAT chunk of 1 payload byte and left the cursor 13
\* bytes further, at a stray byte
C15_Witness ==
    /\ pc = "merge"
    /\ chunk.ok
    /\ chunk.chunk_type = <<73, 68, 65, 84>>
    /\ data.some
    /\ iter = <<9>>
    /\ Len(slice) = 14

\* C16: peek_chunk fails with InvalidData when fewer than 12 bytes remain,
\* when a tag byte is not a letter or bit 5 of the third tag byte is set, or
\* when the declared length plus 12 exceeds the bytes remaining; otherwise it
\* returns the chunk at the cursor, with the declared length, the tag and a
\* payload of exactly the declared length.
C16_PeekChunk ==
    [][(pc \in {"prescan", "idat_prescan", "merge"})
       => (IF WellFramed(iter)
          THEN /\ chunk'.ok
               /\ chunk'.len = DeclaredLength(iter)
               /\ chunk'.len + 12 <= Len(iter)
               /\ chunk'.chunk_type = SubSeq(iter, 5, 8)
               /\ Len(chunk'.data) = chunk'.len
               /\ chunk'.data = SubSeq(iter, 9, 8 + DeclaredLength(iter))
          ELSE /\ ~chunk'.ok
               /\ pc' = "failed"
               /\ err' = "InvalidData")]_vars

\* the walk was stopped with InvalidData by a whole chunk whose third tag
\* byte has bit 5 set, behind an IDAT chunk
C16_Witness ==
    /\ pc = "failed"
    /\ err = "InvalidData"
    /\ data.some
    /\ ~chunk.ok
    /\ Len(iter) >= 13
    /\ SubSeq(iter, 1, 8) = <<0, 0, 0, 1, 73, 68, 97, 84>>

(***************************************************************************)
(* Properties of the decoded image and of the row filters (checked under   *)
(* Spec), and of paeth (checked under SpecPaeth)                           *)
(***************************************************************************)
\* C17: the ImageData of a decoded non-Indexed image has an empty palette,
\* also when a PLTE chunk came before the first IDAT chunk.
C17_NonIndexedEmptyPalette ==
    (pc = "decoded" /\ image.info.image_type # "Indexed")
    => image.palette = <<>>

\* C18: a row with filter selector 3 has stride bytes and satisfies
\* output[i] = (filtered[i] + (left + above) div 2) mod 256, left being
\* output[i - n_channels] or 0 when there is none, above being the byte of
\* the previous row at i, or 0 at every i when the row is the first row.
C18_Average ==
    [][(RowReadable /\ Head(source) = 3)
       => LET n == n_channels(info.image_type)
              out == prev_line'
          IN  /\ Len(out) = Stride(info)
              /\ y > 0 => Len(prev_line) = Stride(info)
              /\ \A i \in 1..Stride(info) :
                   out[i] = (NextLineSrc[i]
                             + ((IF i > n THEN out[i - n] ELSE 0)
                                + (IF y = 0 THEN 0 ELSE prev_line[i])) \div 2) % 256]_vars

PaethDistance(v) ==
    LET p == paeth_args[1] + paeth_args[2] - paeth_args[3]
    IN  IF p >= v THEN p - v ELSE v - p

\* C19: paeth(left, above, upper_left) returns one of its three arguments,
\* one at the smallest distance |left + above - upper_left - v|, and of those
\* left before above before upper_left.
C19_Paeth ==
    pc = "paeth_done"
    => LET left == paeth_args[1]
           above == paeth_args[2]
           upper_left == paeth_args[3]
           nearer(v, w) == PaethDistance(v) < PaethDistance(w)
       IN  /\ paeth_ret \in {left, above, upper_left}
           /\ \A v \in {left, above, upper_left} : ~nearer(v, paeth_ret)
           /\ paeth_ret # left => (nearer(above, left) \/ nearer(upper_left, left))
           /\ paeth_ret \notin {left, above} => nearer(upper_left, above)

\* left and upper_left at the same distance 1 from p = 2, above further away:
\* left is returned
C19_Witness ==
    /\ pc = "paeth_done"
    /\ paeth_args = <<1, 4, 3>>
    /\ paeth_ret = 1

\* C20: a Row step leaves in the previous-row buffer exactly the bytes it
\* appended to the reconstructed buffer, so that row y > 0 finds there the
\* stride reconstructed bytes of row y - 1; a row with filter selector 2 is
\* its filtered bytes when it is the first row, and otherwise satisfies
\* output[i] = (filtered[i] + previous_row[i]) mod 256 at every i of its
\* stride bytes.
C20_UpAndPreviousRow ==
    [][RowReadable
       => (/\ reconstructed' = reconstructed \o prev_line'
           /\ Head(source) = 2 =>
                IF y = 0 THEN prev_line' = NextLineSrc
                ELSE /\ Len(prev_line) = Stride(info)
                     /\ Len(prev_line') = Stride(info)
                     /\ \A i \in 1..Stride(info) :
                          prev_line'[i] = (NextLineSrc[i] + prev_line[i]) % 256)]_vars

(***************************************************************************)
(* Properties of the row loop and of the end of decode (checked under      *)
(* Spec), and of the end of the chunk stream (checked under SpecFrames)    *)
(***************************************************************************)
\* C21: each iteration of the row loop either fails decode with InvalidData,
\* when the filter selector is missing or not in 0..4 or fewer than stride
\* bytes follow it, leaving no ImageData, or consumes 1 + stride bytes of the
\* inflated buffer; the loop is left without error after exactly height
\* iterations.
C21_RowLoop ==
    [][(pc = "rows")
       => (/\ y < info.height
           /\ IF source = <<>> \/ Head(source) \notin 0..4
                 \/ Len(source) - 1 < Stride(info)
              THEN /\ pc' = "failed"
                   /\ err' = "InvalidData"
                   /\ image' = NoImage
                   /\ y' = y
              ELSE /\ y' = y + 1
                   /\ source' = SubSeq(source, 2 + Stride(info), Len(source))
                   /\ Len(source') = Len(inflated) - y' * (1 + Stride(info))
                   /\ pc' \in {"rows", "fix", "check"}
                   /\ pc' = "rows" <=> y' < info.height)]_vars

\* decode failed at the second row of a two-row image, on a selector of 5
C21_Witness ==
    /\ pc = "failed"
    /\ call = "decode"
    /\ err = "InvalidData"
    /\ y = 1
    /\ info.height = 2
    /\ source # <<>>
    /\ Head(source) = 5
    /\ image = NoImage

\* C22: after k completed iterations of the row loop the reconstructed buffer
\* holds k * stride bytes, whatever the filter selectors were, and the pixel
\* buffer of a decoded image holds width * height * n_channels bytes.
C22_BufferLength ==
    /\ (call = "decode" /\ pc \in {"rows", "fix"})
       => Len(reconstructed) = y * Stride(info)
    /\ pc = "decoded"
       => Len(image.data)
            = info.width * info.height * n_channels(info.image_type)

\* C23: decode ends with an ImageData, InvalidData or UnsupportedFormat and
\* never in a panic.
C23_DecodeNeverPanics ==
    call = "decode" => err # "panic"

\* C24: a step of the chunk walk that finds fewer than 12 bytes at the cursor
\* fails with InvalidData, also when IDAT payloads have been collected; the
\* walk returns a payload only in a step that consumes an IEND chunk.
C24_StreamEndsBeforeIend ==
    [][(pc \in {"prescan", "idat_prescan", "merge"})
       => (/\ Len(iter) < 12 => (pc' = "failed" /\ err' = "InvalidData")
           /\ pc' \in {"collected", "inflate"}
              => (/\ WellFramed(iter)
                  /\ SubSeq(iter, 5, 8) = <<73, 69, 78, 68>>
                  /\ iter' = SubSeq(iter, DeclaredLength(iter) + 13, Len(iter))
                  /\ data'.some))]_vars

\* get_idat_chunks failed with InvalidData at the end of a stream of two IDAT
\* chunks and no IEND chunk, both payloads collected
C24_Witness ==
    /\ pc = "failed"
    /\ call = "get_idat_chunks"
    /\ err = "InvalidData"
    /\ iter = <<>>
    /\ data.some
    /\ data.v.v = <<7, 7>>

====
